---- MODULE Spec2Model ----
(***************************************************************************)
(* Resume versioning (services/resume_service.py), job ownership           *)
(* (services/job_description_service.py, utils/haddlers.py) and the user   *)
(* directory (services/user_service.py, data/users/sql_user_repository.py) *)
(* over a shared persistent store.  A request is a coroutine; it is        *)
(* modelled as a process whose steps are the storage operations it awaits. *)
(***************************************************************************)
EXTENDS Integers, FiniteSets, Sequences, TLC

\* Rows ever inserted into the resume table (fresh uuid4 values).
MaxRows == 3

\* Concurrent requests against the resume service / the job service.
Requests == {"r1", "r2"}

\* Callers (UUIDs of authenticated users).
Users == {"alice", "bob"}

\* dto.title of ResumeCreateRequest, after strip().
CreateTitles == {"CV1"}

\* dto.title of ResumeUpdateRequest; "" stands for an absent (falsy) title.
UpdateTitles == {"", "CV2"}

\* Resume.version labels: <<"v", n, 0>> is the text "v{n}.0", <<"rc">> a label
\* a caller typed, <<>> an absent (falsy) label.
CreateVersions == {<<"v", 1, 0>>}

UpdateVersions == {<<>>, <<"rc">>}

\* ResumeStatus (spec: enum{DRAFT, ACTIVE, ARCHIVED}).
ResumeStatuses == {"draft", "active", "archived"}

\* dto.status of ResumeUpdateRequest; "" stands for an absent status.
UpdateStatuses == {"", "active", "archived"}

\* The status query parameter of listar_curriculos; "" stands for None.
StatusFilters == {""} \cup ResumeStatuses

ResumeIds == 1..MaxRows

\* Rows of the job table.
MaxJobs == 2

JobIds == 1..MaxJobs

\* title of a stored job, and title of JobDescriptionUpdateRequest; "" stands
\* for a field the request leaves unset (exclude_unset=True drops it).
JobTitles == {"T1"}

UpdateJobTitles == {"", "T2"}

\* Users ever registered (fresh uuid4 values and autoincrement keys).
MaxUsers == 2

UserUuids == 1..MaxUsers

\* request.email as typed; "A@x" and "a@x" differ only in letter case.
Emails == {"a@x", "A@x", "b@x"}

Passwords == {"p1", "p2", "p3"}

\* bcrypt.gensalt()
Salts == {"s1", "s2"}

\* Tokens a caller can present: sub 0 is the UUID of no user.
PresentedTokens ==
    [sub : 0..MaxUsers, email : {"a@x"}, type : {"none", "refresh"}, valid : BOOLEAN]

VARIABLES
    resumes,    \* the resume table: a set of rows
    nextId,     \* the next fresh uuid4 (resume_id / resume_group_id)
    calls,      \* calls[r]: the resume-service coroutine of request r
    nUpdates,   \* nUpdates[g]: successful atualizar_curriculo calls on group g
    jobs,       \* the job table: a set of rows
    jcalls,     \* jcalls[r]: the job-service coroutine of request r
    userRows,       \* users.tb_users
    contactRows,    \* users.tb_contacts
    credentialRows, \* users.tb_credentials
    settingRows,    \* users.tb_settings
    nextUserId,     \* the next autoincrement user_id
    nextUuid,       \* the next fresh uuid4 (User.id)
    ucalls          \* ucalls[r]: the user-service coroutine of request r

resumeVars == <<resumes, nextId, calls, nUpdates>>

jobVars == <<jobs, jcalls>>

userVars ==
    <<userRows, contactRows, credentialRows, settingRows, nextUserId, nextUuid, ucalls>>

----------------------------------------------------------------------------
\* Optional values: None is the empty set, a value v is {v}.
None == {}

Some(v) == {v}

The(opt) == CHOOSE v \in opt : TRUE

----------------------------------------------------------------------------
\* ResumeRepository (data.sql_repository): single-statement storage primitives.

get_by_id(table, resume_id) == {row \in table : row.resume_id = resume_id}

repo_add(table, row) == table \cup {row}

repo_update(table, row) ==
    {IF old.resume_id = row.resume_id THEN row ELSE old : old \in table}

repo_delete(table, resume_id) == {row \in table : row.resume_id # resume_id}

\* list_by_user(user_id, status): the rows of the user, of the given status
\* when one is given ("" stands for None).
list_by_user(table, user_id, status) ==
    {row \in table : row.user_id = user_id /\ (status = "" \/ row.status = status)}

----------------------------------------------------------------------------
\* ResumeService

IdleCall ==
    [op |-> "none", pc |-> "idle", user_id |-> "none", resume_id |-> 0,
     title |-> "", version |-> <<>>, status |-> "", existing |-> None,
     outcome |-> "none", listed |-> {}, counts |-> <<>>]

Done(call, outcome) ==
    [op |-> call.op, pc |-> "done", user_id |-> call.user_id,
     resume_id |-> call.resume_id, title |-> "", version |-> <<>>,
     status |-> IF call.op = "listar" THEN call.status ELSE "",
     existing |-> call.existing,
     outcome |-> outcome, listed |-> call.listed, counts |-> call.counts]

\* Rows that the calls in flight will still insert.
PendingAdds ==
    Cardinality({r \in Requests : calls[r].pc \in {"update", "add"}})

CanInsert == (nextId - 1) + PendingAdds < MaxRows

Free(r) == calls[r].pc \in {"idle", "done"}

\* The ownership check left out.
OwnerNotChecked(resume, user_id) == FALSE

\* resume.user_id != user_id  (lines 67, 83, 123)
AccessDenied(resume, user_id) == resume.user_id # user_id

\* The version number carried over without the increment.
StaleVersionNumber(existing) == existing.version_number

\* new_version_number = existing.version_number + 1  (line 86)
NewVersionNumber(existing) == existing.version_number + 1

\* if existing.is_current: ... update(existing)  (line 89)
MustFlip(existing) == existing.is_current

\* title=dto.title or existing.title  (line 98)
NewTitle(dtoTitle, existing) == IF dtoTitle # "" THEN dtoTitle ELSE existing.title

\* f"v{new_version_number}.0"
VersionLabel(n) == <<"v", n, 0>>

\* The generated label numbered after the version being replaced.
LabelOfReplacedVersion(dtoVersion, new_version_number) ==
    IF dtoVersion # <<>> THEN dtoVersion ELSE VersionLabel(new_version_number - 1)

\* new_version = dto.version or f"v{new_version_number}.0"  (line 87)
NewVersion(dtoVersion, new_version_number) ==
    IF dtoVersion # <<>> THEN dtoVersion ELSE VersionLabel(new_version_number)

\* status=dto.status or existing.status  (line 102)
NewStatus(dtoStatus, existing) == IF dtoStatus # "" THEN dtoStatus ELSE existing.status

\* Resume(...) of criar_curriculo  (lines 43-57)
CreatedResume(id, user_id, title, version) ==
    [resume_id |-> id, resume_group_id |-> id, user_id |-> user_id,
     title |-> title, version_number |-> 1, version |-> version,
     is_current |-> TRUE, status |-> "draft"]

\* The flip also archiving the replaced version.
FlippedAndArchived(existing) ==
    [existing EXCEPT !.is_current = FALSE, !.status = "archived"]

\* existing after "existing.is_current = False"  (line 90)
Flipped(existing) == [existing EXCEPT !.is_current = FALSE]

\* Resume(...) of atualizar_curriculo  (lines 94-112)
NewResume(id, dto, existing) ==
    [resume_id |-> id, resume_group_id |-> existing.resume_group_id,
     user_id |-> existing.user_id, title |-> NewTitle(dto.title, existing),
     version_number |-> NewVersionNumber(existing),
     version |-> NewVersion(dto.version, NewVersionNumber(existing)),
     is_current |-> TRUE, status |-> NewStatus(dto.status, existing)]

\* Outcome of get_by_id and the two checks that open buscar / atualizar /
\* excluir  (lines 63-68, 79-84, 119-124); "pass" when both checks pass.
Checked(found, user_id) ==
    IF found = None THEN "NotFound"
    ELSE IF AccessDenied(The(found), user_id) THEN "AccessDenied"
    ELSE "pass"

NewCall(op, user_id, resume_id, title) ==
    [IdleCall EXCEPT !.op = op, !.user_id = user_id, !.resume_id = resume_id,
                     !.title = title]

\* criar_curriculo  (lines 41-60): one insert.
Criar(r) ==
    /\ Free(r) /\ CanInsert
    /\ \E u \in Users, t \in CreateTitles, v \in CreateVersions :
        /\ resumes' = repo_add(resumes, CreatedResume(nextId, u, t, v))
        /\ calls' = [calls EXCEPT ![r] = Done(NewCall("criar", u, nextId, t), "ok")]
    /\ nextId' = nextId + 1
    /\ nUpdates' = [nUpdates EXCEPT ![nextId] = 0]
    /\ UNCHANGED <<jobVars, userVars>>

\* buscar_curriculo  (lines 61-70): one read.
Buscar(r) ==
    /\ Free(r)
    /\ \E u \in Users, id \in ResumeIds :
        LET found == get_by_id(resumes, id)
            check == Checked(found, u)
        IN  calls' = [calls EXCEPT ![r] =
                Done(NewCall("buscar", u, id, ""), IF check = "pass" THEN "ok" ELSE check)]
    /\ UNCHANGED <<resumes, nextId, nUpdates, jobVars, userVars>>

\* atualizar_curriculo up to its second await  (lines 79-91), called by u
\* for resume id with the payload dto.
AtualizarGetWith(r, u, id, dto) ==
    /\ Free(r) /\ CanInsert
    /\ LET found == get_by_id(resumes, id)
           check == Checked(found, u)
           call  == [NewCall("atualizar", u, id, dto.title) EXCEPT
                        !.version = dto.version, !.status = dto.status,
                        !.existing = found]
       IN  calls' = [calls EXCEPT ![r] =
                IF check # "pass" THEN Done(call, check)
                ELSE IF MustFlip(The(found)) THEN [call EXCEPT !.pc = "update"]
                ELSE [call EXCEPT !.pc = "add"]]
    /\ UNCHANGED <<resumes, nextId, nUpdates, jobVars, userVars>>

\* A payload that sets the title only.
AtualizarGetOn(r, u, id, t) ==
    AtualizarGetWith(r, u, id, [title |-> t, version |-> <<>>, status |-> ""])

AtualizarGet(r) ==
    \E u \in Users, id \in ResumeIds, t \in UpdateTitles : AtualizarGetOn(r, u, id, t)

\* ResumeUpdateRequest payloads: nothing set, everything set, the status alone.
UpdateRequests ==
    {[title |-> "", version |-> <<>>, status |-> ""],
     [title |-> "CV2", version |-> <<"rc">>, status |-> "archived"],
     [title |-> "", version |-> <<>>, status |-> "active"]}

AtualizarGetAny(r) ==
    \E u \in Users, id \in ResumeIds, dto \in UpdateRequests :
        AtualizarGetWith(r, u, id, dto)

\* excluir_curriculo up to its second await  (lines 119-124).
ExcluirGet(r) ==
    /\ Free(r)
    /\ \E u \in Users, id \in ResumeIds :
        LET found == get_by_id(resumes, id)
            check == Checked(found, u)
            call  == NewCall("excluir", u, id, "")
        IN  calls' = [calls EXCEPT ![r] =
                IF check # "pass" THEN Done(call, check)
                ELSE [call EXCEPT !.pc = "delete"]]
    /\ UNCHANGED <<resumes, nextId, nUpdates, jobVars, userVars>>

\* atualizar_curriculo: await self.resume_repository.update(existing)
AtualizarUpdate(r) ==
    /\ calls[r].op = "atualizar" /\ calls[r].pc = "update"
    /\ resumes' = repo_update(resumes, Flipped(The(calls[r].existing)))
    /\ calls' = [calls EXCEPT ![r].pc = "add"]
    /\ UNCHANGED <<nextId, nUpdates, jobVars, userVars>>

\* atualizar_curriculo: await self.resume_repository.add(new_resume)
AtualizarAdd(r) ==
    /\ calls[r].op = "atualizar" /\ calls[r].pc = "add"
    /\ LET existing == The(calls[r].existing)
       IN  /\ resumes' = repo_add(resumes, NewResume(nextId, calls[r], existing))
           /\ nUpdates' = [nUpdates EXCEPT ![existing.resume_group_id] = @ + 1]
    /\ nextId' = nextId + 1
    /\ calls' = [calls EXCEPT ![r] = Done(@, "ok")]
    /\ UNCHANGED <<jobVars, userVars>>

\* A delete that takes every version of the group with it.
ExcluirGroup(r) ==
    /\ calls[r].op = "excluir" /\ calls[r].pc = "delete"
    /\ LET found == get_by_id(resumes, calls[r].resume_id)
       IN  /\ resumes' = {row \in resumes :
                            \A gone \in found : row.resume_group_id # gone.resume_group_id}
           /\ calls' = [calls EXCEPT ![r] = Done(@, IF found # None THEN "ok" ELSE "false")]
    /\ UNCHANGED <<nextId, nUpdates, jobVars, userVars>>

\* excluir_curriculo: return await self.resume_repository.delete(resume_id)
ExcluirDelete(r) ==
    /\ calls[r].op = "excluir" /\ calls[r].pc = "delete"
    /\ resumes' = repo_delete(resumes, calls[r].resume_id)
    /\ calls' = [calls EXCEPT ![r] =
          Done(@, IF get_by_id(resumes, calls[r].resume_id) # None THEN "ok" ELSE "false")]
    /\ UNCHANGED <<nextId, nUpdates, jobVars, userVars>>

\* A count that ignores the status.
CountAnyStatus(rows, status) == Cardinality(rows)

\* sum(1 for resume in resumes if resume.status == ...)  (lines 137-139)
CountStatus(rows, status) == Cardinality({row \in rows : row.status = status})

\* ResumeListResponse(...)  (lines 141-147)
ResumeListResponse(rows) ==
    [total_count |-> Cardinality(rows),
     active_count |-> CountStatus(rows, "active"),
     draft_count |-> CountStatus(rows, "draft"),
     archived_count |-> CountStatus(rows, "archived")]

\* listar_curriculos  (lines 128-147): one read.
Listar(r) ==
    /\ Free(r)
    /\ \E u \in Users, status \in StatusFilters :
        LET rows == list_by_user(resumes, u, status)
            call == [NewCall("listar", u, 0, "") EXCEPT
                        !.status = status, !.listed = rows,
                        !.counts = ResumeListResponse(rows)]
        IN  calls' = [calls EXCEPT ![r] = Done(call, "ok")]
    /\ UNCHANGED <<resumes, nextId, nUpdates, jobVars, userVars>>

\* atualizar_curriculo is cancelled, or its add raises, after the flip was
\* persisted: the exception leaves the coroutine (there is no except / rollback
\* in lines 89-115).
AtualizarFail(r) ==
    /\ calls[r].op = "atualizar" /\ calls[r].pc = "add"
    /\ calls' = [calls EXCEPT ![r] = Done(@, "Failed")]
    /\ UNCHANGED <<resumes, nextId, nUpdates, jobVars, userVars>>

ResumeInit ==
    /\ resumes = {}
    /\ nextId = 1
    /\ calls = [r \in Requests |-> IdleCall]
    /\ nUpdates = [g \in ResumeIds |-> 0]

\* The steps of request r, without failures.
ResumeStep(r) ==
    \/ Criar(r) \/ Buscar(r)
    \/ AtualizarGet(r) \/ AtualizarUpdate(r) \/ AtualizarAdd(r)
    \/ ExcluirGet(r) \/ ExcluirDelete(r)

----------------------------------------------------------------------------
\* Identities handed to the job service: None, a UUID, an int, or a value
\* that is neither (a malformed string).
NoUser == <<"none", 0>>

Uuid(n) == <<"uuid", n>>

IntId(n) == <<"int", n>>

Malformed == <<"str", 0>>

Requesters ==
    {NoUser, Malformed} \cup {Uuid(n) : n \in 1..3} \cup {IntId(n) : n \in 0..1}

\* users.tb_users: the rows (user_uuid, user_id).  UUID 3 belongs to no row.
tb_users == {[user_uuid |-> 1, user_id |-> 2], [user_uuid |-> 2, user_id |-> 1]}

\* created_by_user_id values a stored job can hold (None: no creator stored).
CreatorIds == {None} \cup {Some(n) : n \in 0..2}

\* repo.execute_query("SELECT user_id FROM users.tb_users WHERE user_uuid = :uuid")
execute_query(uuid) == {row \in tb_users : row.user_uuid = uuid}

\* A resolver that coerces a UUID it cannot find to the integer 0.
resolve_coercing(value, storageFails) ==
    IF value[1] = "uuid"
    THEN LET rows == execute_query(value[2])
         IN  IF rows # {} /\ ~storageFails
             THEN Some((CHOOSE row \in rows : TRUE).user_id)
             ELSE Some(0)
    ELSE IF value[1] = "int" THEN Some(value[2])
    ELSE None

\* A resolver that reads a value that is neither a UUID nor a number as 0.
resolve_malformed_as_zero(value, storageFails) ==
    IF value[1] = "uuid"
    THEN IF storageFails THEN None
         ELSE LET rows == execute_query(value[2])
              IN  IF rows # {} THEN Some((CHOOSE row \in rows : TRUE).user_id)
                  ELSE None
    ELSE IF value[1] = "int" THEN Some(value[2])
    ELSE Some(0)

\* resolve_id_from_uuid  (utils/haddlers.py lines 35-65); storageFails: the
\* query raises.
resolve_id_from_uuid(value, storageFails) ==
    IF value[1] = "uuid"
    THEN IF storageFails THEN None
         ELSE LET rows == execute_query(value[2])
              IN  IF rows # {} THEN Some((CHOOSE row \in rows : TRUE).user_id)
                  ELSE None
    ELSE IF value[1] = "int" THEN Some(value[2])
    ELSE None

\* The lookup inside resolve_id_from_uuid raised (haddlers.py lines 49-59):
\* only a UUID is looked up.
LookupRaised(value, storageFails) == value[1] = "uuid" /\ storageFails

\* "not current_user_uuid"  (lines 93, 141): None and the int 0 are falsy.
Falsy(value) == value = NoUser \/ value = IntId(0)

\* JobRepository (data.sql_repository)
job_get_by_id(table, job_id) == {job \in table : job.job_id = job_id}

\* repo.update(job_id, update_data): every field named in update_data is
\* written to the row.
job_update(table, job_id, update_data) ==
    {IF job.job_id = job_id
     THEN [f \in DOMAIN job |->
              IF f \in DOMAIN update_data THEN update_data[f] ELSE job[f]]
     ELSE job :
        job \in table}

\* repo.add(job, created_by_user_uuid): the creator is resolved to the
\* internal key; no creator, or one that does not resolve, is an error.
AddError(created_by_user_uuid, resolved) ==
    IF created_by_user_uuid = NoUser \/ resolved = None
    THEN "AuthenticationRequired"
    ELSE "none"

job_add(table, job) == table \cup {job}

\* An add_job_description that swallows the repository's error.
AddOutcomeSwallowed(error) == "ok"

\* add_job_description lines 37-59: the repository's error is re-raised.
AddOutcome(error) == IF error # "none" THEN error ELSE "ok"

\* A payload that also carries created_by_user_id, left at its default None.
update_data_with_creator(call) ==
    [f \in (IF call.title # "" THEN {"title"} ELSE {}) \cup {"created_by_user_id"} |->
        IF f = "title" THEN call.title ELSE None]

\* update_data = request.dict(exclude_unset=True)  (line 116): the fields
\* the request sets; "" stands for a title left unset.
update_data(call) ==
    [f \in (IF call.title # "" THEN {"title"} ELSE {}) |-> call.title]

job_delete(table, job_id) == {job \in table : job.job_id # job_id}

list_by_creator_id(table, id) ==
    {job.job_id : job \in {j \in table : j.created_by_user_id = Some(id)}}

\* The ownership comparison left out.
UpdateAuthzUnchecked(existing, resolved) ==
    IF resolved = None THEN "UserNotFound" ELSE "pass"

\* update_job_description lines 98-114: from the resolved id to the
\* ownership comparison.  int(None) raises TypeError.
UpdateAuthz(existing, resolved) ==
    IF resolved = None THEN "UserNotFound"
    ELSE IF existing.created_by_user_id = None THEN "TypeError"
    ELSE IF The(existing.created_by_user_id) # The(resolved) THEN "NotAuthorized"
    ELSE "pass"

\* delete_job_description lines 148-164.
DeleteAuthz(existing, resolved) ==
    IF resolved = None THEN "UserNotFound"
    ELSE IF existing.created_by_user_id = None
            \/ The(existing.created_by_user_id) # The(resolved) THEN "NotAuthorized"
    ELSE "pass"

IdleJobCall ==
    [op |-> "none", pc |-> "idle", job_id |-> 0, requester |-> NoUser,
     title |-> "", existing |-> None, resolved |-> None, outcome |-> "none",
     listed |-> {}, failed |-> FALSE]

NewJobCall(op, job_id, requester, title) ==
    [IdleJobCall EXCEPT !.op = op, !.job_id = job_id, !.requester = requester,
                        !.title = title]

JobDone(call, outcome) == [call EXCEPT !.pc = "done", !.title = "", !.outcome = outcome]

JobFree(r) == jcalls[r].pc \in {"idle", "done"}

\* update_job_description / delete_job_description up to the second await
\* (lines 93-97, 141-146).
JobGet(r, op, titles) ==
    /\ JobFree(r)
    /\ \E id \in JobIds, q \in Requesters, t \in titles :
        LET found == job_get_by_id(jobs, id)
            call  == [NewJobCall(op, id, q, t) EXCEPT !.existing = found]
        IN  jcalls' = [jcalls EXCEPT ![r] =
                IF Falsy(q) THEN JobDone(NewJobCall(op, id, q, t), "AuthenticationRequired")
                ELSE IF found = None THEN JobDone(call, "NotFound")
                ELSE [call EXCEPT !.pc = "auth"]]
    /\ UNCHANGED <<jobs, resumeVars, userVars>>

UpdateGet(r) == JobGet(r, "update", UpdateJobTitles)

DeleteGet(r) == JobGet(r, "delete", {""})

\* update_job_description lines 98-119.
UpdateApply(r) ==
    /\ jcalls[r].op = "update" /\ jcalls[r].pc = "auth"
    /\ \E storageFails \in BOOLEAN :
        LET call     == jcalls[r]
            resolved == resolve_id_from_uuid(call.requester, storageFails)
            authz    == UpdateAuthz(The(call.existing), resolved)
            stored   == job_get_by_id(jobs, call.job_id)
        IN  /\ jobs' = IF authz = "pass"
                       THEN job_update(jobs, call.job_id,
                                       update_data([call EXCEPT !.resolved = resolved]))
                       ELSE jobs
            /\ jcalls' = [jcalls EXCEPT ![r] =
                  JobDone([call EXCEPT !.resolved = resolved,
                                       !.failed = LookupRaised(call.requester, storageFails)],
                          IF authz # "pass" THEN authz
                          ELSE IF stored = None THEN "NotFoundAfterUpdate"
                          ELSE "ok")]
    /\ UNCHANGED <<resumeVars, userVars>>

\* A delete that reports success whatever repo.delete returned.
DeleteOutcomeUnchecked(authz, stored) == IF authz # "pass" THEN authz ELSE "ok"

\* delete_job_description lines 159-171: the authorization error, or
\* "not found or could not be deleted" when repo.delete returned falsy (no
\* row was stored under the id), or True.
DeleteOutcome(authz, stored) ==
    IF authz # "pass" THEN authz
    ELSE IF stored = None THEN "NotFoundOrNotDeleted"
    ELSE "ok"

\* delete_job_description lines 148-171.
DeleteApply(r) ==
    /\ jcalls[r].op = "delete" /\ jcalls[r].pc = "auth"
    /\ \E storageFails \in BOOLEAN :
        LET call     == jcalls[r]
            resolved == resolve_id_from_uuid(call.requester, storageFails)
            authz    == DeleteAuthz(The(call.existing), resolved)
            stored   == job_get_by_id(jobs, call.job_id)
        IN  /\ jobs' = IF authz = "pass" THEN job_delete(jobs, call.job_id) ELSE jobs
            /\ jcalls' = [jcalls EXCEPT ![r] =
                  JobDone([call EXCEPT !.resolved = resolved,
                                       !.failed = LookupRaised(call.requester, storageFails)],
                          DeleteOutcome(authz, stored))]
    /\ UNCHANGED <<resumeVars, userVars>>

\* list_jobs_by_creator  (lines 173-204).
ListJobs(r) ==
    /\ JobFree(r)
    /\ \E q \in Requesters, storageFails \in BOOLEAN :
        LET resolved == resolve_id_from_uuid(q, storageFails)
            call     == [NewJobCall("list", 0, q, "") EXCEPT
                             !.resolved = resolved,
                             !.failed = LookupRaised(q, storageFails)]
        IN  jcalls' = [jcalls EXCEPT ![r] =
                IF resolved = None THEN JobDone(call, "UserNotFound")
                ELSE JobDone([call EXCEPT !.listed = list_by_creator_id(jobs, The(resolved))],
                             "ok")]
    /\ UNCHANGED <<jobs, resumeVars, userVars>>

\* add_job_description  (lines 19-59); job_id = uuid4() is an id no stored
\* job has.
AddJob(r) ==
    /\ JobFree(r)
    /\ \E id \in JobIds, q \in Requesters, t \in JobTitles, storageFails \in BOOLEAN :
        /\ job_get_by_id(jobs, id) = None
        /\ LET resolved == resolve_id_from_uuid(q, storageFails)
               error    == AddError(q, resolved)
               job      == [job_id |-> id, created_by_user_id |-> resolved, title |-> t]
               call     == [NewJobCall("add", id, q, "") EXCEPT
                                !.resolved = resolved,
                                !.failed = LookupRaised(q, storageFails)]
           IN  /\ jobs' = IF error = "none" THEN job_add(jobs, job) ELSE jobs
               /\ jcalls' = [jcalls EXCEPT ![r] = JobDone(call, AddOutcome(error))]
    /\ UNCHANGED <<resumeVars, userVars>>

JobStep(r) ==
    \/ AddJob(r)
    \/ UpdateGet(r) \/ UpdateApply(r)
    \/ DeleteGet(r) \/ DeleteApply(r)
    \/ ListJobs(r)

----------------------------------------------------------------------------
\* User directory (services/user_service.py over
\* data/users/sql_user_repository.py).

CONTACT_TYPE_ID_EMAIL == 1

PROVIDER_ID_EMAIL == 1

STATUS_TYPE_ID_ACTIVE == 1

STATUS_TYPE_ID_INACTIVE == 2

\* str.lower() on the e-mail addresses of the model.
lower(email) == IF email = "A@x" THEN "a@x" ELSE email

\* bcrypt.hashpw(password, salt): the hash embeds its salt.
hashpw(password, salt) == <<"2b", salt, password>>

\* bcrypt.checkpw(password, hashed): re-hash with the salt of the stored hash.
checkpw(password, hashed) ==
    Len(hashed) = 3 /\ hashpw(password, hashed[2]) = hashed

\* UserMapper.to_domain
to_domain(db_user) ==
    LET emails == {c.contact_value : c \in
                      {c \in contactRows : c.user_id = db_user.user_id
                                           /\ c.contact_type_id = CONTACT_TYPE_ID_EMAIL}}
        hashes == {c.password_hashed : c \in
                      {c \in credentialRows : c.user_id = db_user.user_id
                                              /\ c.provider_id = PROVIDER_ID_EMAIL}}
    IN  [id       |-> db_user.user_uuid,
         email    |-> IF emails # {} THEN CHOOSE e \in emails : TRUE ELSE "",
         password |-> IF hashes # {} THEN CHOOSE h \in hashes : TRUE ELSE <<>>,
         active   |-> db_user.status_type_id = STATUS_TYPE_ID_ACTIVE]

\* UserMapper.to_persistence
to_persistence(user, user_id, status_type_id, contact_type_id, provider_id) ==
    [db_user       |-> [user_id |-> user_id, user_uuid |-> user.id,
                        status_type_id |-> status_type_id],
     db_contact    |-> [user_id |-> user_id, contact_type_id |-> contact_type_id,
                        contact_value |-> lower(user.email)],
     db_credential |-> [user_id |-> user_id, provider_id |-> provider_id,
                        identifier |-> lower(user.email),
                        password_hashed |-> user.password],
     db_settings   |-> [user_id |-> user_id]]

\* result.scalar_one_or_none(): more than one row raises.
scalar_one_or_none(rows) ==
    IF Cardinality(rows) > 1 THEN [raised |-> TRUE, row |-> None]
    ELSE [raised |-> FALSE, row |-> rows]

\* SQLUserRepository._get_contact_by_email
get_contact_by_email(email) ==
    scalar_one_or_none({c \in contactRows :
        c.contact_type_id = CONTACT_TYPE_ID_EMAIL /\ c.contact_value = lower(email)})

\* SQLUserRepository._get_credential_by_email
get_credential_by_email(email) ==
    scalar_one_or_none({c \in credentialRows :
        c.provider_id = PROVIDER_ID_EMAIL /\ c.identifier = lower(email)})

\* The rows of tb_users joined to tb_contacts a query for a contact value gives.
JoinedUsers(value) ==
    {u \in userRows : \E c \in contactRows :
        /\ c.user_id = u.user_id
        /\ c.contact_type_id = CONTACT_TYPE_ID_EMAIL
        /\ c.contact_value = value}

\* A lookup that compares the address as typed.
get_user_by_email_exact(email) ==
    LET found == scalar_one_or_none(JoinedUsers(email))
    IN  [raised |-> found.raised,
         user   |-> IF found.row = None THEN None ELSE Some(to_domain(The(found.row)))]

\* SQLUserRepository.get_user_by_email
get_user_by_email(email) ==
    LET found == scalar_one_or_none(JoinedUsers(lower(email)))
    IN  [raised |-> found.raised,
         user   |-> IF found.row = None THEN None ELSE Some(to_domain(The(found.row)))]

\* SQLUserRepository.get_user_by_id
get_user_by_id(user_uuid) ==
    LET rows == {u \in userRows : u.user_uuid = user_uuid}
    IN  IF rows = {} THEN None ELSE Some(to_domain(The(rows)))

\* The methods class SQLUserRepository defines.
SQLUserRepositoryMethods ==
    {"_get_contact_by_email", "_get_credential_by_email", "get_user_by_email",
     "get_user_by_id", "create_user", "update_user"}

\* A write of the credential's password_hashed.
update_password_hash(table, user_uuid, new_hash) ==
    {IF \E u \in userRows : u.user_uuid = user_uuid /\ u.user_id = c.user_id
     THEN [c EXCEPT !.password_hashed = new_hash] ELSE c :
        c \in table}

\* jwt.encode of the claims; "valid" is what jwt.decode will find (signature
\* and expiry); an access token carries no "type" claim.
create_access_token(data) ==
    [sub |-> data.sub, email |-> data.email, type |-> "none", valid |-> TRUE]

create_refresh_token(data) ==
    [sub |-> data.sub, email |-> data.email, type |-> "refresh", valid |-> TRUE]

TokenResponse(data) == {create_access_token(data), create_refresh_token(data)}

Failure(outcome) == [outcome |-> outcome, tokens |-> {}]

\* An authenticate_user that names the missing account.
authenticate_user_leaky(email, password) ==
    LET found == get_user_by_email(email)
    IN  IF found.raised THEN Failure("InternalErrorQuery")
        ELSE IF found.user = None THEN Failure("UserNotFound")
        ELSE LET user == The(found.user)
             IN  IF ~checkpw(password, user.password) THEN Failure("InvalidCredentials")
                 ELSE IF ~user.active THEN Failure("AccountDisabled")
                 ELSE [outcome |-> "ok",
                       tokens  |-> TokenResponse([sub |-> user.id, email |-> user.email])]

\* An authenticate_user that does not look at user.active.
authenticate_user_any_status(email, password) ==
    LET found == get_user_by_email(email)
    IN  IF found.raised THEN Failure("InternalErrorQuery")
        ELSE IF found.user = None THEN Failure("InvalidCredentials")
        ELSE LET user == The(found.user)
             IN  IF ~checkpw(password, user.password) THEN Failure("InvalidCredentials")
                 ELSE [outcome |-> "ok",
                       tokens  |-> TokenResponse([sub |-> user.id, email |-> user.email])]

\* UserService.authenticate_user  (lines 107-149)
authenticate_user(email, password) ==
    LET found == get_user_by_email(email)
    IN  IF found.raised THEN Failure("InternalErrorQuery")
        ELSE IF found.user = None THEN Failure("InvalidCredentials")
        ELSE LET user == The(found.user)
             IN  IF ~checkpw(password, user.password) THEN Failure("InvalidCredentials")
                 ELSE IF ~user.active THEN Failure("AccountDisabled")
                 ELSE [outcome |-> "ok",
                       tokens  |-> TokenResponse([sub |-> user.id, email |-> user.email])]

\* A refresh_token that takes any decodable token.
refresh_token_any_type(token) ==
    IF ~token.valid THEN Failure("None")
    ELSE LET user == get_user_by_id(token.sub)
         IN  IF user = None \/ ~The(user).active THEN Failure("None")
             ELSE [outcome |-> "ok",
                   tokens  |-> TokenResponse([sub |-> token.sub, email |-> token.email])]

\* UserService.refresh_token  (lines 231-273)
refresh_token(token) ==
    IF ~token.valid THEN Failure("None")
    ELSE IF token.type # "refresh" THEN Failure("None")
    ELSE LET user == get_user_by_id(token.sub)
         IN  IF user = None \/ ~The(user).active THEN Failure("None")
             ELSE [outcome |-> "ok",
                   tokens  |-> TokenResponse([sub |-> token.sub, email |-> token.email])]

\* A verify_token that takes access tokens only.
verify_token_access_only(token) ==
    IF ~token.valid THEN "None"
    ELSE IF token.type = "refresh" THEN "None"
    ELSE LET user == get_user_by_id(token.sub)
         IN  IF user = None \/ ~The(user).active THEN "None" ELSE "ok"

\* A verify_token that does not look at user.active.
verify_token_any_status(token) ==
    IF ~token.valid THEN "None"
    ELSE IF get_user_by_id(token.sub) = None THEN "None" ELSE "ok"

\* UserService.verify_token  (lines 206-229): None, or "ok" for the dict of
\* the token's user.  jwt.decode raising is ~token.valid; the "type" claim is
\* not read.
verify_token(token) ==
    IF ~token.valid THEN "None"
    ELSE LET user == get_user_by_id(token.sub)
         IN  IF user = None \/ ~The(user).active THEN "None" ELSE "ok"

\* get_current_user  (core/dependencies.py lines 81-107): 401 unless
\* verify_token returned the token's user.
get_current_user(token) ==
    IF verify_token(token) = "None" THEN "Unauthorized" ELSE "ok"

\* A change_password that does not verify the current password.
change_password_unverified(user_uuid, current_password, new_password) ==
    LET user == get_user_by_id(user_uuid)
    IN  IF user = None THEN "False"
        ELSE IF "update_password_hash" \notin SQLUserRepositoryMethods THEN "False"
        ELSE "True"

\* UserService.change_password  (lines 275-304): the value returned or the
\* error raised.  A call of a method the repository does not define raises
\* AttributeError, which line 302 turns into False.
change_password(user_uuid, current_password, new_password) ==
    LET user == get_user_by_id(user_uuid)
    IN  IF user = None THEN "False"
        ELSE IF ~checkpw(current_password, The(user).password)
        THEN "CurrentPasswordIncorrect"
        ELSE IF "update_password_hash" \notin SQLUserRepositoryMethods THEN "False"
        ELSE "True"

NoToken == [sub |-> 0, email |-> "", type |-> "none", valid |-> FALSE]

IdleUserCall ==
    [op |-> "none", pc |-> "idle", email |-> "", password |-> "",
     new_password |-> "", user_uuid |-> 0, token |-> NoToken, entity |-> None,
     user_id |-> 0, outcome |-> "none", tokens |-> {}, failed |-> FALSE]

UserDone(call, outcome) == [call EXCEPT !.pc = "done", !.outcome = outcome]

UserFree(r) == ucalls[r].pc \in {"idle", "done"}

storeVars == <<userRows, contactRows, credentialRows, settingRows, nextUserId>>

\* register_user up to the call of create_user  (lines 63-70).
RegisterGet(r) ==
    /\ UserFree(r)
    /\ nextUuid <= MaxUsers
    /\ \E email \in Emails, password \in Passwords, salt \in Salts :
        LET found  == get_user_by_email(email)
            call   == [IdleUserCall EXCEPT !.op = "register", !.email = email,
                                           !.password = password]
            entity == [id |-> nextUuid, email |-> email,
                       password |-> hashpw(password, salt), active |-> TRUE]
        IN  IF found.raised \/ found.user # None
            THEN /\ ucalls' = [ucalls EXCEPT ![r] =
                        UserDone(call, IF found.raised THEN "InternalErrorQuery"
                                       ELSE "EmailAlreadyRegistered")]
                 /\ UNCHANGED nextUuid
            ELSE /\ ucalls' = [ucalls EXCEPT ![r] =
                        [call EXCEPT !.pc = "contact", !.entity = Some(entity)]]
                 /\ nextUuid' = nextUuid + 1
    /\ UNCHANGED <<storeVars, resumeVars, jobVars>>

\* create_user lines 152-154.
CreateContact(r) ==
    /\ ucalls[r].pc = "contact"
    /\ LET found == get_contact_by_email(The(ucalls[r].entity).email)
       IN  ucalls' = [ucalls EXCEPT ![r] =
               IF found.raised \/ found.row # None
               THEN UserDone(ucalls[r], "InternalErrorCreation")
               ELSE [ucalls[r] EXCEPT !.pc = "credential"]]
    /\ UNCHANGED <<storeVars, nextUuid, resumeVars, jobVars>>

\* create_user lines 157-159.
CreateCredential(r) ==
    /\ ucalls[r].pc = "credential"
    /\ LET found == get_credential_by_email(The(ucalls[r].entity).email)
       IN  ucalls' = [ucalls EXCEPT ![r] =
               IF found.raised \/ found.row # None
               THEN UserDone(ucalls[r], "InternalErrorCreation")
               ELSE [ucalls[r] EXCEPT !.pc = "flush"]]
    /\ UNCHANGED <<storeVars, nextUuid, resumeVars, jobVars>>

\* create_user lines 163-174: the tb_users row gets its autoincrement key;
\* the insert stays inside the session's transaction.
CreateFlush(r) ==
    /\ ucalls[r].pc = "flush"
    /\ ucalls' = [ucalls EXCEPT ![r] =
           [ucalls[r] EXCEPT !.pc = "commit", !.user_id = nextUserId]]
    /\ nextUserId' = nextUserId + 1
    /\ UNCHANGED <<userRows, contactRows, credentialRows, settingRows, nextUuid,
                   resumeVars, jobVars>>

\* create_user lines 177-186: await self.db.commit() makes the four rows of
\* the registration visible.
Commit(r) ==
    LET user == The(ucalls[r].entity)
        rows == to_persistence(user, ucalls[r].user_id,
                    IF user.active THEN STATUS_TYPE_ID_ACTIVE
                    ELSE STATUS_TYPE_ID_INACTIVE,
                    CONTACT_TYPE_ID_EMAIL, PROVIDER_ID_EMAIL)
    IN  /\ userRows' = userRows \cup {rows.db_user}
        /\ contactRows' = contactRows \cup {rows.db_contact}
        /\ credentialRows' = credentialRows \cup {rows.db_credential}
        /\ settingRows' = settingRows \cup {rows.db_settings}

\* create_user lines 177-202 and register_user lines 72-98: the commit makes
\* the rows visible; the reload and the stubbed preference / activity writes
\* touch no other row.
CreateCommit(r) ==
    /\ ucalls[r].pc = "commit"
    /\ Commit(r)
    /\ ucalls' = [ucalls EXCEPT ![r] = UserDone(ucalls[r], "ok")]
    /\ UNCHANGED <<nextUserId, nextUuid, resumeVars, jobVars>>

\* register_user line 65 / authenticate_user line 109: the query of
\* get_user_by_email raises; the repository wraps the error in a ValueError
\* that the service re-raises (user_service.py lines 100-102, 144-146).
QueryFails(r, op) ==
    /\ UserFree(r)
    /\ \E email \in Emails, password \in Passwords :
        ucalls' = [ucalls EXCEPT ![r] =
            UserDone([IdleUserCall EXCEPT !.op = op, !.email = email,
                                          !.password = password, !.failed = TRUE],
                     "InternalErrorQuery")]
    /\ UNCHANGED <<storeVars, nextUuid, resumeVars, jobVars>>

RegisterGetFails(r) == QueryFails(r, "register")

AuthenticateFails(r) == QueryFails(r, "authenticate")

\* create_user: a statement awaited before the commit, or the commit, raises;
\* lines 204-207 roll the session back and raise ValueError.
CreateFails(r) ==
    /\ ucalls[r].pc \in {"contact", "credential", "flush", "commit"}
    /\ ucalls' = [ucalls EXCEPT ![r] =
           UserDone([ucalls[r] EXCEPT !.failed = TRUE], "InternalErrorCreation")]
    /\ UNCHANGED <<storeVars, nextUuid, resumeVars, jobVars>>

\* create_user: the commit succeeds and the reload of lines 189-199 raises;
\* the rollback of line 206 finds nothing to undo and line 207 raises.
CreateReloadFails(r) ==
    /\ ucalls[r].pc = "commit"
    /\ Commit(r)
    /\ ucalls' = [ucalls EXCEPT ![r] =
           UserDone([ucalls[r] EXCEPT !.failed = TRUE], "InternalErrorCreation")]
    /\ UNCHANGED <<nextUserId, nextUuid, resumeVars, jobVars>>

\* The exception an error outcome of register_user / authenticate_user is
\* raised as: each is a ValueError (user_service.py lines 67, 111-118, 100-105,
\* 144-149), and the text of a wrapped storage error quotes the exception that
\* caused it (f"Internal error during ...: {e}").
ServiceError(outcome) ==
    [class |-> "ValueError",
     quotes_cause |-> outcome \in {"InternalErrorQuery", "InternalErrorCreation"}]

\* register_user / login_user of api/auth.py (lines 58-69, 88-105): a
\* ValueError is answered 400 / 401 with detail=str(e), any other exception
\* 500 with the fixed detail "Internal server error".
HttpError(op, error) ==
    IF error.class = "ValueError"
    THEN [status |-> IF op = "register" THEN 400 ELSE 401,
          quotes_cause |-> error.quotes_cause]
    ELSE [status |-> 500, quotes_cause |-> FALSE]

RegisterStep(r) ==
    \/ RegisterGet(r) \/ CreateContact(r) \/ CreateCredential(r)
    \/ CreateFlush(r) \/ CreateCommit(r)

\* authenticate_user  (lines 107-149)
Authenticate(r) ==
    /\ UserFree(r)
    /\ \E email \in Emails, password \in Passwords :
        LET result == authenticate_user(email, password)
        IN  ucalls' = [ucalls EXCEPT ![r] =
                UserDone([IdleUserCall EXCEPT !.op = "authenticate", !.email = email,
                                              !.password = password,
                                              !.tokens = result.tokens],
                         result.outcome)]
    /\ UNCHANGED <<storeVars, nextUuid, resumeVars, jobVars>>

\* refresh_token  (lines 231-273)
RefreshToken(r) ==
    /\ UserFree(r)
    /\ \E token \in PresentedTokens :
        LET result == refresh_token(token)
        IN  ucalls' = [ucalls EXCEPT ![r] =
                UserDone([IdleUserCall EXCEPT !.op = "refresh", !.token = token,
                                              !.tokens = result.tokens],
                         result.outcome)]
    /\ UNCHANGED <<storeVars, nextUuid, resumeVars, jobVars>>

\* change_password  (lines 275-304)
ChangePassword(r) ==
    /\ UserFree(r)
    /\ \E user_uuid \in UserUuids, current \in Passwords, new \in Passwords,
          salt \in Salts :
        LET outcome == change_password(user_uuid, current, new)
        IN  /\ ucalls' = [ucalls EXCEPT ![r] =
                  UserDone([IdleUserCall EXCEPT !.op = "change_password",
                                                !.user_uuid = user_uuid,
                                                !.password = current,
                                                !.new_password = new],
                           outcome)]
            /\ credentialRows' =
                  IF outcome = "True"
                  THEN update_password_hash(credentialRows, user_uuid, hashpw(new, salt))
                  ELSE credentialRows
    /\ UNCHANGED <<userRows, contactRows, settingRows, nextUserId, nextUuid,
                   resumeVars, jobVars>>

\* verify_token called with a bearer token.
VerifyToken(r) ==
    /\ UserFree(r)
    /\ \E token \in PresentedTokens :
        ucalls' = [ucalls EXCEPT ![r] =
            UserDone([IdleUserCall EXCEPT !.op = "verify", !.token = token],
                     verify_token(token))]
    /\ UNCHANGED <<storeVars, nextUuid, resumeVars, jobVars>>

\* logout_user  (api/auth.py lines 206-223): the get_current_user dependency,
\* then the success response; nothing is written.
Logout(r) ==
    /\ UserFree(r)
    /\ \E token \in PresentedTokens :
        ucalls' = [ucalls EXCEPT ![r] =
            UserDone([IdleUserCall EXCEPT !.op = "logout", !.token = token],
                     get_current_user(token))]
    /\ UNCHANGED <<storeVars, nextUuid, resumeVars, jobVars>>

\* An account is deactivated in the store: its tb_users row gets
\* STATUS_TYPE_ID_INACTIVE.
Deactivate ==
    /\ \E row \in userRows :
        /\ row.status_type_id = STATUS_TYPE_ID_ACTIVE
        /\ userRows' = (userRows \ {row}) \cup
                           {[row EXCEPT !.status_type_id = STATUS_TYPE_ID_INACTIVE]}
    /\ UNCHANGED <<contactRows, credentialRows, settingRows, nextUserId, nextUuid,
                   ucalls, resumeVars, jobVars>>

\* An account is deleted from the store: the tb_users row and, by the
\* cascade of its relationships, its contact, credential and settings rows.
RemoveAccount ==
    /\ \E row \in userRows :
        /\ userRows' = userRows \ {row}
        /\ contactRows' = {c \in contactRows : c.user_id # row.user_id}
        /\ credentialRows' = {c \in credentialRows : c.user_id # row.user_id}
        /\ settingRows' = {c \in settingRows : c.user_id # row.user_id}
    /\ UNCHANGED <<nextUserId, nextUuid, ucalls, resumeVars, jobVars>>

UserStep(r) ==
    \/ RegisterStep(r)
    \/ Authenticate(r) \/ RefreshToken(r) \/ ChangePassword(r)

\* The account a store can hold before the first request: registered as
\* a@x with password p1, active or deactivated.
SeedUser(status_type_id) ==
    to_persistence([id |-> 1, email |-> "a@x", password |-> hashpw("p1", "s1"),
                    active |-> TRUE],
                   1, status_type_id, CONTACT_TYPE_ID_EMAIL, PROVIDER_ID_EMAIL)

EmptyStore ==
    /\ userRows = {} /\ contactRows = {} /\ credentialRows = {}
    /\ settingRows = {}
    /\ nextUserId = 1 /\ nextUuid = 1
    /\ ucalls = [r \in Requests |-> IdleUserCall]

SeededStore ==
    \E status \in {STATUS_TYPE_ID_ACTIVE, STATUS_TYPE_ID_INACTIVE} :
        /\ userRows = {SeedUser(status).db_user}
        /\ contactRows = {SeedUser(status).db_contact}
        /\ credentialRows = {SeedUser(status).db_credential}
        /\ settingRows = {SeedUser(status).db_settings}
        /\ nextUserId = 2 /\ nextUuid = 2
        /\ ucalls = [r \in Requests |-> IdleUserCall]

----------------------------------------------------------------------------
\* The job tables the service can find in the store.
StoredJobs ==
    {table \in SUBSET [job_id : JobIds, created_by_user_id : CreatorIds, title : JobTitles] :
        \A a, b \in table : a.job_id = b.job_id => a = b}

vars == <<resumes, nextId, calls, nUpdates, jobs, jcalls,
          userRows, contactRows, credentialRows, settingRows, nextUserId, nextUuid,
          ucalls>>

Init ==
    /\ ResumeInit
    /\ jobs = {}
    /\ jcalls = [r \in Requests |-> IdleJobCall]
    /\ EmptyStore

\* Concurrent requests, interleaved at their storage awaits, with failures.
Next == \E r \in Requests : ResumeStep(r) \/ AtualizarFail(r)

Spec == Init /\ [][Next]_vars

\* One request at a time: every call runs to completion before the next.
SeqNext == ResumeStep("r1")

SpecSeq == Init /\ [][SeqNext]_vars

\* One request at a time, and every update is made by the owner on the
\* group's current version.
ChainUpdate(r) ==
    \E u \in Users, id \in ResumeIds, t \in UpdateTitles :
        /\ \E row \in resumes :
              row.resume_id = id /\ row.user_id = u /\ row.is_current
        /\ AtualizarGetOn(r, u, id, t)

ChainNext ==
    \/ Criar("r1") \/ ChainUpdate("r1")
    \/ AtualizarUpdate("r1") \/ AtualizarAdd("r1")

SpecChain == Init /\ [][ChainNext]_vars

\* One request at a time, with payloads that set every field, and listings.
FieldsNext ==
    \/ Criar("r1") \/ AtualizarGetAny("r1") \/ AtualizarUpdate("r1")
    \/ AtualizarAdd("r1") \/ ExcluirGet("r1") \/ ExcluirDelete("r1")
    \/ Listar("r1")

SpecFields == Init /\ [][FieldsNext]_vars

\* The job service over any stored job table, one request at a time.
JobInit ==
    /\ ResumeInit
    /\ jobs \in StoredJobs
    /\ jcalls = [r \in Requests |-> IdleJobCall]
    /\ EmptyStore

JobNext == JobStep("r1")

SpecJob == JobInit /\ [][JobNext]_vars

\* The one delete call of request r.
DeleteOnce(r) == jcalls[r].pc = "idle" /\ DeleteGet(r)

\* Two delete calls, one per request, interleaved at the storage awaits.
DeleteNext == \E r \in Requests : DeleteOnce(r) \/ DeleteApply(r)

SpecDelete == JobInit /\ [][DeleteNext]_vars

\* The user service, one request at a time, over an empty store or a store
\* that holds one account.
UserInit ==
    /\ ResumeInit
    /\ jobs = {}
    /\ jcalls = [r \in Requests |-> IdleJobCall]
    /\ (EmptyStore \/ SeededStore)

UserNext == UserStep("r1")

SpecUser == UserInit /\ [][UserNext]_vars

\* Registrations of concurrent requests, interleaved at their storage awaits.
RegisterNext == \E r \in Requests : RegisterStep(r)

SpecRegister == UserInit /\ [][RegisterNext]_vars

\* Sessions: requests that log in and present tokens, while accounts are
\* deactivated or deleted in the store.
SessionNext ==
    \/ \E r \in Requests :
          Authenticate(r) \/ RefreshToken(r) \/ VerifyToken(r) \/ Logout(r)
    \/ Deactivate \/ RemoveAccount

SpecSession == UserInit /\ [][SessionNext]_vars

\* The user service, one request at a time, with storage failures.
FaultyNext ==
    \/ UserStep("r1")
    \/ RegisterGetFails("r1") \/ AuthenticateFails("r1")
    \/ CreateFails("r1") \/ CreateReloadFails("r1")

SpecFaulty == UserInit /\ [][FaultyNext]_vars

----------------------------------------------------------------------------
\* Resume groups and their rows.

GroupIds == {row.resume_group_id : row \in resumes}

GroupRows(g) == {row \in resumes : row.resume_group_id = g}

CurrentRows(g) == {row \in GroupRows(g) : row.is_current}

Quiescent == \A r \in Requests : Free(r)

FinishedUpdate(r) ==
    calls[r].op = "atualizar" /\ calls[r].pc = "done" /\ calls[r].outcome = "ok"

\* C1: after any sequence of criar / atualizar / excluir calls, each run to
\* completion, no resume group has more than one row with is_current = TRUE.
AtMostOneCurrent == \A g \in GroupIds : Cardinality(CurrentRows(g)) <= 1

\* C2: two atualizar_curriculo calls that both read the same current row and
\* both completed leave its group with exactly one current row.
ConcurrentUpdatesKeepOneCurrent ==
    \A r1, r2 \in Requests :
        ( /\ r1 # r2
          /\ FinishedUpdate(r1) /\ FinishedUpdate(r2)
          /\ calls[r1].existing = calls[r2].existing
          /\ The(calls[r1].existing).is_current )
        => Cardinality(CurrentRows(The(calls[r1].existing).resume_group_id)) = 1

\* C3: once every call has completed, each group that still has a row has a
\* row with is_current = TRUE: the count never drops to zero after
\* excluir_curriculo or atualizar_curriculo completes.  (That it never
\* exceeds one is AtMostOneCurrent.)
NeverZeroCurrent ==
    Quiescent => \A g \in GroupIds : Cardinality(CurrentRows(g)) >= 1

\* C4: no two rows of a group share a version_number.
VersionNumbersUnique ==
    \A a, b \in resumes :
        (a.resume_group_id = b.resume_group_id /\ a.version_number = b.version_number)
        => a = b

\* C5: after criar_curriculo and N completed updates of the then-current
\* version by the owner, the group has N+1 rows, numbered 1..N+1, and only the
\* row numbered N+1 is current.
ChainShape ==
    Free("r1") =>
        \A g \in GroupIds :
            LET n == nUpdates[g]
            IN  /\ Cardinality(GroupRows(g)) = n + 1
                /\ {row.version_number : row \in GroupRows(g)} = 1..(n + 1)
                /\ \A row \in GroupRows(g) :
                      row.is_current <=> (row.version_number = n + 1)

ChainOfThree ==
    /\ Free("r1")
    /\ \E g \in GroupIds : nUpdates[g] = 2 /\ Cardinality(GroupRows(g)) = 3

\* C6: when atualizar_curriculo fails after it persisted the flip of the row
\* it read, that row is stored again as it was read (is_current = TRUE).
FlipRolledBack ==
    [][ \A r \in Requests :
          ( /\ calls[r].op = "atualizar" /\ calls[r].pc = "add"
            /\ The(calls[r].existing).is_current
            /\ calls'[r].pc = "done" /\ calls'[r].outcome = "Failed" )
          => The(calls[r].existing) \in resumes' ]_vars

\* C7: a buscar / atualizar / excluir call on an existing row by a caller who
\* is not the row's user_id ends with AccessDenied and changes no row.
NonOwnerDenied ==
    [][ \A r \in Requests :
          ( /\ Free(r) /\ calls'[r] # calls[r]
            /\ calls'[r].op \in {"buscar", "atualizar", "excluir"}
            /\ \E row \in resumes :
                  /\ row.resume_id = calls'[r].resume_id
                  /\ row.user_id # calls'[r].user_id )
          => /\ calls'[r].pc = "done"
             /\ calls'[r].outcome = "AccessDenied"
             /\ resumes' = resumes ]_vars

DeniedOnOldVersion ==
    \E r \in Requests, row \in resumes :
        /\ calls[r].op \in {"atualizar", "excluir"}
        /\ calls[r].pc = "done" /\ calls[r].outcome = "AccessDenied"
        /\ row.resume_id = calls[r].resume_id
        /\ row.user_id # calls[r].user_id
        /\ ~row.is_current

----------------------------------------------------------------------------
\* The authorization outcome a finished job call went through.
AuthzOf(outcome) ==
    IF outcome \in {"ok", "NotFoundAfterUpdate", "NotFoundOrNotDeleted"} THEN "pass"
    ELSE outcome

UnknownUuid(value) == value[1] = "uuid" /\ execute_query(value[2]) = {}

SameAuthorizationChain ==
    \A r \in Requests :
        (jcalls[r].pc = "done" /\ jcalls[r].existing # None)
        => /\ jcalls[r].op = "update" =>
                AuthzOf(jcalls[r].outcome)
                    = DeleteAuthz(The(jcalls[r].existing), jcalls[r].resolved)
           /\ jcalls[r].op = "delete" =>
                AuthzOf(jcalls[r].outcome)
                    = UpdateAuthz(The(jcalls[r].existing), jcalls[r].resolved)

\* C10: a UUID that matches no row of tb_users resolves to None, and update /
\* delete on a stored job and list_jobs_by_creator called with it end with
\* 'Authenticated user not found', whatever created_by_user_id the job stores.
UnknownUuidNeverAuthorized ==
    \A r \in Requests :
        ( /\ jcalls[r].pc = "done"
          /\ UnknownUuid(jcalls[r].requester)
          /\ (jcalls[r].op = "list" \/ jcalls[r].existing # None) )
        => /\ jcalls[r].resolved = None
           /\ jcalls[r].outcome = "UserNotFound"

UnknownUuidOnJobOfUserZero ==
    \E r \in Requests :
        /\ jcalls[r].op \in {"update", "delete"} /\ jcalls[r].pc = "done"
        /\ UnknownUuid(jcalls[r].requester)
        /\ jcalls[r].existing # None
        /\ The(jcalls[r].existing).created_by_user_id = Some(0)
        /\ jcalls[r].outcome = "UserNotFound"

\* The outcome of the call's operation when the requester is a UUID that
\* matches no row of tb_users.
UnknownUuidOutcome(call) ==
    LET resolved == resolve_id_from_uuid(Uuid(3), FALSE)
    IN  IF call.op = "update" THEN UpdateAuthz(The(call.existing), resolved)
        ELSE IF call.op = "delete" THEN DeleteAuthz(The(call.existing), resolved)
        ELSE IF resolved = None THEN "UserNotFound"
        ELSE "ok"

\* A step in which the call of r resolves its requester and finishes.
Resolves(r) ==
    /\ jcalls'[r].pc = "done"
    /\ \/ jcalls[r].pc = "auth"
       \/ JobFree(r) /\ jcalls'[r] # jcalls[r] /\ jcalls'[r].op = "list"

\* C11: when the tb_users lookup raises, or the requester is neither a UUID
\* nor a number, the resolver gives None, and update / delete of a stored job
\* and list_jobs_by_creator end with the error they give for an unknown UUID
\* ('Authenticated user not found') and change no stored job.
LookupFailureFailsClosed ==
    [][ \A r \in Requests :
          ( /\ Resolves(r)
            /\ (jcalls'[r].failed \/ jcalls'[r].requester = Malformed) )
          => /\ jcalls'[r].resolved = None
             /\ jcalls'[r].outcome = "UserNotFound"
             /\ jcalls'[r].outcome = UnknownUuidOutcome(jcalls'[r])
             /\ UnknownUuid(Uuid(3))
             /\ jobs' = jobs ]_vars

OwnerLookupRaised ==
    \E r \in Requests :
        /\ jcalls[r].op \in {"update", "delete"} /\ jcalls[r].pc = "done"
        /\ jcalls[r].failed
        /\ jcalls[r].existing # None
        /\ \E row \in execute_query(jcalls[r].requester[2]) :
              The(jcalls[r].existing).created_by_user_id = Some(row.user_id)
        /\ jcalls[r].outcome = "UserNotFound"

----------------------------------------------------------------------------
\* The stored users that hold an e-mail address, compared without case.
Holders(email) == JoinedUsers(lower(email))

\* A step in which request r makes a whole call of the user-service
\* operation op.
Calls(r, op) ==
    /\ UserFree(r) /\ ucalls'[r] # ucalls[r]
    /\ ucalls'[r].op = op /\ ucalls'[r].pc = "done"

\* C14: register_user for an e-mail address an existing user holds, compared
\* without case, ends with 'Email already registered' before create_user is
\* called and changes nothing in the store.
DuplicateEmailRejected ==
    [][ \A r \in Requests :
          ( /\ UserFree(r) /\ ucalls'[r] # ucalls[r]
            /\ ucalls'[r].op = "register"
            /\ Holders(ucalls'[r].email) # {} )
          => /\ ucalls'[r].pc = "done"
             /\ ucalls'[r].outcome = "EmailAlreadyRegistered"
             /\ UNCHANGED <<storeVars, nextUuid>> ]_vars

SameEmailOtherCaseRejected ==
    \E r \in Requests :
        /\ ucalls[r].op = "register" /\ ucalls[r].pc = "done"
        /\ ucalls[r].outcome = "EmailAlreadyRegistered"
        /\ ucalls[r].email = "A@x"
        /\ \E c \in contactRows : c.contact_value = "a@x"

\* C15: no reachable state of interleaved register_user calls holds two
\* users with the same case-normalized e-mail address (so of two calls with
\* the same address at most one creates a user).
EmailGloballyUnique ==
    \A c1, c2 \in contactRows :
        ( /\ c1.contact_type_id = CONTACT_TYPE_ID_EMAIL
          /\ c2.contact_type_id = CONTACT_TYPE_ID_EMAIL
          /\ lower(c1.contact_value) = lower(c2.contact_value) )
        => c1.user_id = c2.user_id

\* C16: authenticate_user ends with 'Invalid credentials' and no token both
\* when no user holds the e-mail address and when a user holds it but the
\* password does not match: the result is the one an address nobody holds
\* gives.
UnknownEmailLikeWrongPassword ==
    [][ \A r \in Requests :
          ( /\ Calls(r, "authenticate")
            /\ \/ Holders(ucalls'[r].email) = {}
               \/ \E u \in Holders(ucalls'[r].email) :
                     ~checkpw(ucalls'[r].password, to_domain(u).password) )
          => /\ ucalls'[r].outcome = "InvalidCredentials"
             /\ ucalls'[r].tokens = {}
             /\ Holders("nobody@x") = {}
             /\ authenticate_user("nobody@x", ucalls'[r].password)
                    = [outcome |-> ucalls'[r].outcome, tokens |-> ucalls'[r].tokens] ]_vars

WrongPasswordSeen ==
    \E r \in Requests :
        /\ ucalls[r].op = "authenticate" /\ ucalls[r].pc = "done"
        /\ ucalls[r].outcome = "InvalidCredentials"
        /\ \E u \in Holders(ucalls[r].email) :
              /\ to_domain(u).active
              /\ ~checkpw(ucalls[r].password, to_domain(u).password)

\* C17 as stated: authenticate_user for an account with active = FALSE ends
\* with 'User account is disabled' and no token, whatever the password.
DisabledAccountAlwaysDisabledError ==
    [][ \A r \in Requests :
          ( /\ Calls(r, "authenticate")
            /\ \E u \in Holders(ucalls'[r].email) : ~to_domain(u).active )
          => /\ ucalls'[r].outcome = "AccountDisabled"
             /\ ucalls'[r].tokens = {} ]_vars

\* C17 amended: authenticate_user for an account with active = FALSE issues
\* no token; with the correct password it ends with 'User account is
\* disabled', with a wrong one with 'Invalid credentials'.
DisabledAccountGetsNoToken ==
    [][ \A r \in Requests :
          ( /\ Calls(r, "authenticate")
            /\ \E u \in Holders(ucalls'[r].email) : ~to_domain(u).active )
          => /\ ucalls'[r].tokens = {}
             /\ \A u \in Holders(ucalls'[r].email) :
                   ucalls'[r].outcome =
                       IF checkpw(ucalls'[r].password, to_domain(u).password)
                       THEN "AccountDisabled"
                       ELSE "InvalidCredentials" ]_vars

DisabledWithCorrectPassword ==
    \E r \in Requests :
        /\ ucalls[r].op = "authenticate" /\ ucalls[r].pc = "done"
        /\ ucalls[r].outcome = "AccountDisabled"
        /\ ucalls[r].tokens = {}
        /\ \E u \in Holders(ucalls[r].email) :
              /\ ~to_domain(u).active
              /\ checkpw(ucalls[r].password, to_domain(u).password)

\* The password hash stored for a user.
StoredHash(user_uuid) == The(get_user_by_id(user_uuid)).password

\* A step in which request r makes the call change_password(id, current, new).
ChangesPassword(r, id, current, new) ==
    /\ Calls(r, "change_password")
    /\ ucalls'[r].user_uuid = id
    /\ ucalls'[r].password = current
    /\ ucalls'[r].new_password = new

\* C18: change_password with a current password that does not match the
\* stored hash ends with 'Current password is incorrect' and leaves the
\* stored hash as it was: the password that matched it still does, and the
\* new one matches it only if it did before.
WrongCurrentPasswordChangesNothing ==
    [][ \A r \in Requests, id \in UserUuids, current \in Passwords, new \in Passwords :
          ( /\ ChangesPassword(r, id, current, new)
            /\ get_user_by_id(id) # None
            /\ ~checkpw(current, StoredHash(id)) )
          => /\ ucalls'[r].outcome = "CurrentPasswordIncorrect"
             /\ UNCHANGED storeVars
             /\ \A p \in Passwords :
                   checkpw(p, StoredHash(id))' = checkpw(p, StoredHash(id)) ]_vars

WrongCurrentPasswordSeen ==
    \E r \in Requests :
        /\ ucalls[r].op = "change_password" /\ ucalls[r].pc = "done"
        /\ ucalls[r].outcome = "CurrentPasswordIncorrect"
        /\ ucalls[r].new_password # ucalls[r].password
        /\ get_user_by_id(ucalls[r].user_uuid) # None
        /\ ~checkpw(ucalls[r].new_password, StoredHash(ucalls[r].user_uuid))

\* C19: change_password for an existing user with the correct current
\* password returns True and stores the hash of the new password: afterwards
\* the new password matches the stored hash and the old one does not.
CorrectCurrentPasswordChanges ==
    [][ \A r \in Requests, id \in UserUuids, current \in Passwords, new \in Passwords :
          ( /\ ChangesPassword(r, id, current, new)
            /\ get_user_by_id(id) # None
            /\ checkpw(current, StoredHash(id)) )
          => /\ ucalls'[r].outcome = "True"
             /\ checkpw(new, StoredHash(id))'
             /\ new # current => ~checkpw(current, StoredHash(id))' ]_vars

\* C20: refresh_token returns None and no token pair whenever the token's
\* type claim is not 'refresh', or the user it names is missing or inactive.
RefreshRejected ==
    [][ \A r \in Requests :
          ( /\ Calls(r, "refresh")
            /\ \/ ucalls'[r].token.type # "refresh"
               \/ get_user_by_id(ucalls'[r].token.sub) = None
               \/ ~The(get_user_by_id(ucalls'[r].token.sub)).active )
          => /\ ucalls'[r].outcome = "None"
             /\ ucalls'[r].tokens = {} ]_vars

AccessTokenRejected ==
    \E r \in Requests :
        /\ ucalls[r].op = "refresh" /\ ucalls[r].pc = "done"
        /\ ucalls[r].outcome = "None"
        /\ ucalls[r].token.valid /\ ucalls[r].token.type = "none"
        /\ get_user_by_id(ucalls[r].token.sub) # None
        /\ The(get_user_by_id(ucalls[r].token.sub)).active

----------------------------------------------------------------------------
HistoryAppendOnly ==
    [][ \A r \in Requests :
          (calls'[r].op = "atualizar" /\ calls'[r] # calls[r])
          => \A old \in resumes :
                \E new \in resumes' :
                    /\ new.resume_id = old.resume_id
                    /\ \/ new = old
                       \/ /\ old.resume_id = calls'[r].resume_id
                          /\ old.is_current
                          /\ new = [old EXCEPT !.is_current = FALSE] ]_vars

\* Version 2 of a group was replaced while version 1 was stored.
ReplacedSecondVersion ==
    \E r \in Requests, first \in resumes, second \in resumes :
        /\ calls[r].op = "atualizar" /\ calls[r].pc = "done"
        /\ calls[r].outcome = "ok" /\ calls[r].existing # None
        /\ The(calls[r].existing).is_current
        /\ second.resume_id = calls[r].resume_id
        /\ ~second.is_current /\ second.version_number = 2
        /\ first.resume_group_id = second.resume_group_id
        /\ first.version_number = 1

\* C24: a successful excluir_curriculo removes the row with the given
\* resume_id and nothing else: every other row is stored unchanged.
DeleteRemovesExactlyOne ==
    [][ \A r \in Requests :
          ( /\ calls[r].op = "excluir" /\ calls[r].pc = "delete"
            /\ calls'[r].outcome = "ok" )
          => /\ \A row \in resumes :
                    row.resume_id # calls[r].resume_id => row \in resumes'
             /\ \A row \in resumes' :
                    row \in resumes /\ row.resume_id # calls[r].resume_id
             /\ Cardinality(resumes') = Cardinality(resumes) - 1 ]_vars

\* The first version of a group was deleted and a later one is stored.
DeletedFirstVersionOnly ==
    \E r \in Requests, row \in resumes :
        /\ calls[r].op = "excluir" /\ calls[r].pc = "done"
        /\ calls[r].outcome = "ok"
        /\ row.resume_group_id = calls[r].resume_id
        /\ row.resume_id # calls[r].resume_id

\* C25: listar_curriculos returns only stored rows of the caller and, with a
\* status filter, only rows of that status; the four counts are counted over
\* the returned rows, total_count is the sum of the three status counts and
\* the count of a status the filter excludes is 0.
ListingCountsReturnedRows ==
    \A r \in Requests :
        (calls[r].op = "listar" /\ calls[r].pc = "done")
        => LET call == calls[r]
               n(status) == Cardinality({row \in call.listed : row.status = status})
           IN  /\ call.listed \subseteq resumes
               /\ \A row \in call.listed :
                     /\ row.user_id = call.user_id
                     /\ call.status # "" => row.status = call.status
               /\ call.counts.total_count = Cardinality(call.listed)
               /\ call.counts.active_count = n("active")
               /\ call.counts.draft_count = n("draft")
               /\ call.counts.archived_count = n("archived")
               /\ call.counts.total_count =
                     call.counts.active_count + call.counts.draft_count
                         + call.counts.archived_count
               /\ \A status \in ResumeStatuses :
                     (call.status # "" /\ status # call.status)
                     => n(status) = 0

\* A listing filtered by status left out a row of the caller.
FilteredListing ==
    \E r \in Requests, row \in resumes :
        /\ calls[r].op = "listar" /\ calls[r].pc = "done"
        /\ calls[r].status = "archived" /\ calls[r].listed # {}
        /\ row.user_id = calls[r].user_id /\ row.status = "draft"

\* A finished delete call that read the job and whose requester resolved to
\* the job's creator.
DeletedByCreator(call) ==
    /\ call.op = "delete" /\ call.pc = "done"
    /\ call.existing # None /\ call.resolved # None
    /\ The(call.existing).created_by_user_id = call.resolved

\* Two finished delete calls for the same job by the same requester, its
\* creator: one returned True, the other failed with a not-found error, and
\* the job is not stored.
OneOfTwoDeletesWins ==
    \A a, b \in Requests :
        ( /\ a # b /\ DeletedByCreator(jcalls[a])
          /\ jcalls[b].op = "delete" /\ jcalls[b].pc = "done"
          /\ jcalls[b].job_id = jcalls[a].job_id
          /\ jcalls[b].requester = jcalls[a].requester
          /\ ~jcalls[b].failed )
        => /\ \/ /\ jcalls[a].outcome = "ok"
                  /\ jcalls[b].outcome \in {"NotFound", "NotFoundOrNotDeleted"}
              \/ /\ jcalls[b].outcome = "ok"
                  /\ jcalls[a].outcome = "NotFoundOrNotDeleted"
           /\ job_get_by_id(jobs, jcalls[a].job_id) = None

\* C27: when delete_job_description runs twice for one job by its creator,
\* one after the other or interleaved at the storage awaits, exactly one call
\* returns True and the other fails with a not-found error, the job is absent
\* afterwards, and no step of a delete call removes any other job.
TwoDeletesByCreator ==
    [][ /\ OneOfTwoDeletesWins'
        /\ \A r \in Requests :
              (jcalls[r].op = "delete" /\ jcalls'[r] # jcalls[r])
              => /\ jobs' \subseteq jobs
                 /\ \A job \in jobs : job.job_id # jcalls[r].job_id => job \in jobs' ]_vars

\* Both calls read the job before either deleted it; another job is stored.
InterleavedDeletes ==
    /\ DeletedByCreator(jcalls["r1"]) /\ DeletedByCreator(jcalls["r2"])
    /\ jcalls["r1"].job_id = jcalls["r2"].job_id
    /\ jcalls["r1"].outcome = "ok"
    /\ jcalls["r2"].outcome = "NotFoundOrNotDeleted"
    /\ jobs # {}

----------------------------------------------------------------------------
\* C21: a storage failure during register_user or authenticate_user reaches
\* the caller as a generic internal error: an error of another kind than the
\* duplicate-email and invalid-credentials errors, answered with the generic
\* status, and quoting nothing of the failure that caused it.
StorageFailureIsGenericInternalError ==
    \A r \in Requests :
        ( /\ ucalls[r].op \in {"register", "authenticate"}
          /\ ucalls[r].pc = "done" /\ ucalls[r].failed )
        => LET error == ServiceError(ucalls[r].outcome)
               response == HttpError(ucalls[r].op, error)
           IN  /\ error.class # ServiceError("EmailAlreadyRegistered").class
               /\ error.class # ServiceError("InvalidCredentials").class
               /\ response.status = 500
               /\ ~error.quotes_cause /\ ~response.quotes_cause

\* The rows stored for the registration of a finished register call.
PersistedRows(call) ==
    LET users == {u \in userRows : u.user_uuid = The(call.entity).id}
        ids   == {u.user_id : u \in users}
    IN  [user       |-> users,
         contact    |-> {c \in contactRows : c.user_id \in ids},
         credential |-> {c \in credentialRows : c.user_id \in ids},
         settings   |-> {c \in settingRows : c.user_id \in ids}]

\* C30: create_user is all-or-nothing and its outcome matches the store: when
\* it raised, none of the user, contact, credential and settings rows of the
\* registration is stored; when it returned, all four are.
CreateUserAllOrNothing ==
    \A r \in Requests :
        ( /\ ucalls[r].op = "register" /\ ucalls[r].pc = "done"
          /\ ucalls[r].entity # None )
        => LET rows == PersistedRows(ucalls[r])
           IN  IF ucalls[r].outcome = "ok"
               THEN \A table \in DOMAIN rows : rows[table] # {}
               ELSE \A table \in DOMAIN rows : rows[table] = {}

----------------------------------------------------------------------------
\* C26: logout invalidates the token: once logout_user has succeeded for a
\* bearer token, the verification of that token is rejected.
LogoutInvalidatesToken ==
    [][ \A r \in Requests, token \in PresentedTokens :
          ( /\ Calls(r, "logout") /\ ucalls'[r].token = token
            /\ ucalls'[r].outcome = "ok" )
          => verify_token(token)' = "None" ]_vars

\* C28: verify_token and refresh_token return None for every token whose
\* user is inactive or not stored at the time of the call, tokens issued to
\* the user before that included.
TokensOfInactiveOrMissingUserRejected ==
    [][ \A r \in Requests, token \in PresentedTokens :
          ( /\ Calls(r, "verify") \/ Calls(r, "refresh")
            /\ ucalls'[r].token = token
            /\ \/ get_user_by_id(token.sub) = None
               \/ ~The(get_user_by_id(token.sub)).active )
          => /\ ucalls'[r].outcome = "None"
             /\ ucalls'[r].tokens = {} ]_vars

\* Request b presented a token that request a was issued at login, after the
\* account was deactivated or deleted.
IssuedTokenRejectedLater ==
    \E a, b \in Requests :
        /\ ucalls[a].op = "authenticate" /\ ucalls[a].outcome = "ok"
        /\ ucalls[b].op \in {"verify", "refresh"} /\ ucalls[b].pc = "done"
        /\ ucalls[b].token \in ucalls[a].tokens
        /\ ucalls[b].token.type = "refresh"
        /\ ucalls[b].outcome = "None"

\* C29: the outcome of verify_token does not depend on the token's type
\* claim: a decodable token of an active stored user is accepted whatever its
\* type, a refresh token included.
VerifyIgnoresTokenType ==
    [][ \A r \in Requests, token \in PresentedTokens :
          ( Calls(r, "verify") /\ ucalls'[r].token = token )
          => /\ \A type \in {"none", "refresh"} :
                   ucalls'[r].outcome = verify_token([token EXCEPT !.type = type])
             /\ ( /\ token.valid
                  /\ get_user_by_id(token.sub) # None
                  /\ The(get_user_by_id(token.sub)).active )
                => ucalls'[r].outcome = "ok" ]_vars

\* Request b verified the refresh token that request a was issued at login.
RefreshTokenVerified ==
    \E a, b \in Requests :
        /\ ucalls[a].op = "authenticate" /\ ucalls[a].outcome = "ok"
        /\ ucalls[b].op = "verify" /\ ucalls[b].pc = "done"
        /\ ucalls[b].token \in ucalls[a].tokens
        /\ ucalls[b].token.type = "refresh"
        /\ ucalls[b].outcome = "ok"

====
